---- MODULE Spec2Model ----
(***************************************************************************)
(* The recording bridge of reflex-webcam: the browser-side start/stop      *)
(* script of the Webcam component (custom_components/reflex_webcam/        *)
(* webcam.py), the chunk codec normaliser strip_codec_part, and the        *)
(* server-side reassembler and screenshot handler of the demo application  *)
(* (webcam_demo.py).                                                       *)
(*                                                                         *)
(* Strings are sequences of one-character strings.  Bytes are integers.    *)
(* The MediaRecorder, FileReader and window objects the script drives are  *)
(* modelled after the W3C MediaStream Recording and File API documents.    *)
(***************************************************************************)
EXTENDS Integers, Sequences, FiniteSets, TLC

VARIABLES
    event_triggers,       \* Webcam.event_triggers: names of the handlers given
    timeslice,            \* Webcam.timeslice prop (0 = absent)
    raised,               \* number of ValueErrors raised by Webcam.start
    recorders,            \* every MediaRecorder constructed so far, by index
    refs_mediarecorder,   \* refs['mediarecorder_<ref>']: 0 = undefined
    window_listeners,     \* 'beforeunload' listeners on window, in order
    tasks,                \* the browser's queue of MediaRecorder event tasks
    readers,              \* FileReaders whose readAsDataURL is in progress
    event_queue,          \* Reflex events on their way to the backend, FIFO
    console,              \* what the default error sink has logged
    unloaded,             \* the page has been unloaded
    unload_recording,     \* history: the page was unloaded while recording
    recording,            \* State.recording
    n_recordings,         \* State.n_recordings
    active_tab,           \* State.active_tab
    file_exists,          \* State._video_path().exists()
    file_bytes,           \* the bytes of the video artifact
    video_exists,         \* the cached computed var State.video_exists
    emitted,              \* history: every blob the device has handed out
    delivered,            \* history: blobs passed to on_data_available
    stopped_bytes,        \* history: the artifact when on_stop_recording last ran
    artifact_rec,         \* history: the recorder whose start made the artifact
    urls,                 \* history: the video url after each on_start_recording
    n_starts,             \* history: how often the start action was used
    idle_stops,           \* history: stop was used after a recording was over
    last_screenshot,      \* State.last_screenshot: <<>> is None
    last_screenshot_timestamp,  \* State.last_screenshot_timestamp
    loading,              \* State.loading
    handled_screenshots,  \* history: what handle_screenshot did with each payload
    clients,              \* the State of each client, by client token
    uploads,              \* the files of the upload directory, by name
    out                   \* normaliser runs: <<x, f(x), f(f(x)), ...>>

vars == <<event_triggers, timeslice, raised, recorders, refs_mediarecorder,
          window_listeners, tasks, readers, event_queue, console, unloaded, unload_recording,
          recording, n_recordings, active_tab, file_exists, file_bytes,
          video_exists, emitted, delivered, stopped_bytes, artifact_rec, urls,
          n_starts, idle_stops, last_screenshot, last_screenshot_timestamp,
          loading, handled_screenshots, clients, uploads, out>>

browser_vars == <<recorders, refs_mediarecorder, window_listeners, tasks,
                  readers, event_queue, console, unloaded, unload_recording, emitted, delivered>>

\* browser_vars without the event queue.
browser_vars_but_queue == <<recorders, refs_mediarecorder, window_listeners,
                            tasks, readers, console, unloaded,
                            unload_recording, emitted, delivered>>

backend_vars == <<recording, n_recordings, active_tab, file_exists,
                  file_bytes, video_exists, stopped_bytes, artifact_rec, urls>>

screenshot_vars == <<last_screenshot, last_screenshot_timestamp, loading,
                     handled_screenshots>>

clients_vars == <<clients, uploads>>

config_vars == <<event_triggers, timeslice>>

----------------------------------------------------------------------------
(* Bounds of the model. *)

MaxInputs == 2        \* uses of start and timeslices elapsed, together
MaxAtoms == 4         \* atoms a normaliser input is built from
MaxShots == 3         \* screenshots triggered; tab changes under way
MaxEvents == 4        \* events handled for all clients together

----------------------------------------------------------------------------
(* Strings. *)

RECURSIVE Flatten(_)
Flatten(ss) == IF ss = <<>> THEN <<>> ELSE Head(ss) \o Flatten(Tail(ss))

Min(S) == CHOOSE x \in S : \A y \in S : x <= y

RemoveAt(s, i) == SubSeq(s, 1, i - 1) \o SubSeq(s, i + 1, Len(s))

\* The literal "codecs=" of strip_codec_part.
CODECS == <<"c", "o", "d", "e", "c", "s", "=">>

\* Python's `needle in part` on strings.
Contains(part, needle) ==
    \E i \in 1..(Len(part) - Len(needle) + 1) :
        SubSeq(part, i, i + Len(needle) - 1) = needle

\* Python's str.split(sep) for a one-character separator: "" gives [""].
RECURSIVE SplitFrom(_, _, _, _)
SplitFrom(s, sep, i, cur) ==
    IF i > Len(s) THEN <<cur>>
    ELSE IF s[i] = sep THEN <<cur>> \o SplitFrom(s, sep, i + 1, <<>>)
    ELSE SplitFrom(s, sep, i + 1, Append(cur, s[i]))

split(s, sep) == SplitFrom(s, sep, 1, <<>>)

\* Python's sep.join(parts).
RECURSIVE join(_, _)
join(sep, parts) ==
    IF parts = <<>> THEN <<>>
    ELSE IF Len(parts) = 1 THEN parts[1]
    ELSE parts[1] \o <<sep>> \o join(sep, Tail(parts))

\* Python's list.remove(x): drops the first element equal to x.
list_remove(parts, x) ==
    RemoveAt(parts, Min({j \in 1..Len(parts) : parts[j] = x}))

\* A defective normaliser: the loop has no break and a rebuilt list, so
\* every segment with "codecs=" goes.
strip_codec_part_all(data_uri) ==
    LET parts == split(data_uri, ";")
    IN  join(";", SelectSeq(parts, LAMBDA p : ~Contains(p, CODECS)))

\* A defective normaliser: on a match the segment at the head of the
\* list is removed instead of the one that matched.
strip_codec_part_head(data_uri) ==
    LET parts == split(data_uri, ";")
        hits  == {i \in 1..Len(parts) : Contains(parts[i], CODECS)}
    IN  IF hits = {} THEN join(";", parts)
        ELSE join(";", Tail(parts))

strip_codec_part(data_uri) ==
    LET parts == split(data_uri, ";")
        hits  == {i \in 1..Len(parts) : Contains(parts[i], CODECS)}
    IN  IF hits = {} THEN join(";", parts)
        ELSE join(";", list_remove(parts, parts[Min(hits)]))

----------------------------------------------------------------------------
(* The transport encoding of a chunk and its decoding. *)

\* Character codes of the characters a data URI is written with.
Ord(c) ==
    CASE c = "," -> 44 [] c = "/" -> 47 [] c = "4" -> 52 [] c = "6" -> 54
      [] c = "8" -> 56 [] c = ":" -> 58 [] c = ";" -> 59 [] c = "=" -> 61
      [] c = "A" -> 65 [] c = "B" -> 66 [] c = "C" -> 67 [] c = "D" -> 68
      [] c = "E" -> 69 [] c = "F" -> 70 [] c = "G" -> 71 [] c = "H" -> 72
      [] c = "a" -> 97 [] c = "b" -> 98 [] c = "c" -> 99 [] c = "d" -> 100
      [] c = "e" -> 101 [] c = "i" -> 105 [] c = "m" -> 109 [] c = "o" -> 111
      [] c = "p" -> 112 [] c = "s" -> 115 [] c = "t" -> 116 [] c = "u" -> 117
      [] c = "v" -> 118 [] c = "w" -> 119
      [] OTHER -> 63

\* The base64 alphabet, one character for each byte value 1..8.
B64 == <<"A", "B", "C", "D", "E", "F", "G", "H">>

b64encode(data) == [i \in 1..Len(data) |-> B64[data[i]]]

b64valid(chars) ==
    \A i \in 1..Len(chars) : \E b \in 1..Len(B64) : B64[b] = chars[i]

b64decode(chars) ==
    [i \in 1..Len(chars) |-> CHOOSE b \in 1..Len(B64) : B64[b] = chars[i]]

\* The type of the blobs a MediaRecorder made with mimeType 'video/webm'
\* hands out: the container and the codecs the browser picked.
BLOB_TYPE ==
    <<"v", "i", "d", "e", "o", "/", "w", "e", "b", "m", ";">> \o CODECS
        \o <<"v", "p", "8", ",", "o", "p", "u", "s">>

\* FileReader.readAsDataURL: data:<type>;base64,<base64 of the bytes>.
readAsDataURL(blob) ==
    <<"d", "a", "t", "a", ":">> \o BLOB_TYPE
        \o <<";", "b", "a", "s", "e", "6", "4", ",">> \o b64encode(blob.data)

IndexOf(s, c) ==
    IF \E i \in 1..Len(s) : s[i] = c
    THEN Min({i \in 1..Len(s) : s[i] = c})
    ELSE 0

EndsWith(s, suffix) ==
    /\ Len(s) >= Len(suffix)
    /\ SubSeq(s, Len(s) - Len(suffix) + 1, Len(s)) = suffix

\* urllib's handler of data: urls.  The media type is what stands before
\* the first comma; the rest is base64 only when the media type ends in
\* ";base64", and is taken as literal bytes otherwise.
urlopen(url) ==
    LET colon == IndexOf(url, ":")
        rest  == SubSeq(url, colon + 1, Len(url))
        comma == IndexOf(rest, ",")
        mediatype == SubSeq(rest, 1, comma - 1)
        data  == SubSeq(rest, comma + 1, Len(rest))
    IN  IF colon = 0 \/ comma = 0 THEN [ok |-> FALSE, bytes |-> <<>>]
        ELSE IF EndsWith(mediatype, <<";", "b", "a", "s", "e", "6", "4">>)
        THEN IF b64valid(data)
             THEN [ok |-> TRUE, bytes |-> b64decode(data)]
             ELSE [ok |-> FALSE, bytes |-> <<>>]
        ELSE [ok |-> TRUE, bytes |-> [i \in 1..Len(data) |-> Ord(data[i])]]

----------------------------------------------------------------------------
(* The demo application's State. *)

SCREENSHOT_TAB == "screenshot_tab"
VIDEO_TAB == "video_tab"

\* Python's str() of a natural number.
RECURSIVE str(_)
str(n) ==
    LET digit == <<"0", "1", "2", "3", "4", "5", "6", "7", "8", "9">>[(n % 10) + 1]
    IN  IF n < 10 THEN <<digit>> ELSE Append(str(n \div 10), digit)

\* State.video_path: "<client token>_video.webm", the token written "T".
video_path ==
    <<"T", "_", "v", "i", "d", "e", "o", ".", "w", "e", "b", "m">>

\* The url of rx.video: f"{rx.get_upload_url(State.video_path)}?r={State.n_recordings}".
video_url(n) ==
    <<"/", "_", "u", "p", "l", "o", "a", "d", "/">> \o video_path
        \o <<"?", "r", "=">> \o str(n)

----------------------------------------------------------------------------
(* The browser: MediaRecorder objects, their listeners, the window. *)

HANDLERS == {"on_data_available", "on_start", "on_stop", "on_error"}

NoBlob == [id |-> 0, rec |-> 0, data |-> <<>>, final |-> FALSE]

\* The current values of what a listener can change.
Browser == [readers |-> readers, event_queue |-> event_queue, console |-> console]

\* A Reflex event put on the queue; rec is the recorder it comes from
\* (0: from window), kept for the properties only.
add_event(b, name, r) ==
    [b EXCEPT !.event_queue =
        Append(@, [name |-> name, payload |-> <<>>, rec |-> r])]

\* A dataavailable listener that forwards every blob, empty ones too.
on_dataavailable_unguarded(e_data, b) ==
    [b EXCEPT !.readers = @ \cup {e_data}]

\* The dataavailable listener of the start script: a FileReader is set to
\* work on every blob that is not empty.
on_dataavailable(e_data, b) ==
    IF Len(e_data.data) > 0
    THEN [b EXCEPT !.readers = @ \cup {e_data}]
    ELSE b

\* What `on_error` is in the script: the handler given, or the log sink.
on_error_handler(triggers) ==
    IF "on_error" \in triggers THEN "on_error" ELSE "console.log"

\* Calling one registered listener.
call(handler, e_data, b, r) ==
    CASE handler = "dataavailable_listener" -> on_dataavailable(e_data, b)
      [] handler = "on_start" -> add_event(b, "on_start", r)
      [] handler = "on_stop" -> add_event(b, "on_stop", r)
      [] handler = "on_error" -> add_event(b, "on_error", r)
      [] handler = "console.log" -> [b EXCEPT !.console = Append(@, "error")]

\* EventTarget.dispatchEvent: the listeners of the type, in the order of
\* their registration.
RECURSIVE dispatch(_, _, _, _, _)
dispatch(listeners, type, e_data, b, r) ==
    IF listeners = <<>> THEN b
    ELSE dispatch(Tail(listeners), type, e_data,
                  IF Head(listeners).type = type
                  THEN call(Head(listeners).handler, e_data, b, r)
                  ELSE b,
                  r)

\* The addEventListener calls of one run of the start script, numbered in
\* the order the script makes them (template lines 24-39, with the
\* callbacks add_hooks renders): on the new recorder 'dataavailable',
\* 'start' if on_start is given, 'stop' if on_stop is given and with it
\* 'beforeunload' on window for the same handler, 'error' for on_error or
\* the log sink, and last 'beforeunload' on window for a closure that stops
\* recorder n.
calls_of_script(triggers, n) ==
    <<[target |-> "recorder", type |-> "dataavailable",
       handler |-> "dataavailable_listener", rec |-> 0]>>
    \o (IF "on_start" \in triggers
        THEN <<[target |-> "recorder", type |-> "start",
                handler |-> "on_start", rec |-> 0]>>
        ELSE <<>>)
    \o (IF "on_stop" \in triggers
        THEN <<[target |-> "recorder", type |-> "stop",
                handler |-> "on_stop", rec |-> 0],
               [target |-> "window", type |-> "beforeunload",
                handler |-> "on_stop", rec |-> 0]>>
        ELSE <<>>)
    \o <<[target |-> "recorder", type |-> "error",
          handler |-> on_error_handler(triggers), rec |-> 0]>>
    \o <<[target |-> "window", type |-> "beforeunload",
          handler |-> "stop_recorder", rec |-> n]>>

\* The script's calls without a listener for 'error' when on_error is absent.
registrations_no_default_sink(triggers, n) ==
    LET calls == SelectSeq(calls_of_script(triggers, n),
                    LAMBDA c : c.handler # "console.log")
    IN  [i \in 1..Len(calls) |->
            [target |-> calls[i].target, type |-> calls[i].type,
             handler |-> calls[i].handler, rec |-> calls[i].rec,
             run |-> n, order |-> i]]

\* The listeners one run of the start script registers, each with the run
\* (the recorder the run makes) and its place in the run.
registrations(triggers, n) ==
    LET calls == calls_of_script(triggers, n)
    IN  [i \in 1..Len(calls) |->
            [target |-> calls[i].target, type |-> calls[i].type,
             handler |-> calls[i].handler, rec |-> calls[i].rec,
             run |-> n, order |-> i]]

\* The listeners the start script puts on new recorder n (add_hooks).
recorder_listeners(triggers, n) ==
    SelectSeq(registrations(triggers, n), LAMBDA l : l.target = "recorder")

\* The start script without line 39: window gets the stop handler's
\* listener only, and no closure that stops the recorder.
unload_listeners_handler_only(triggers, n) ==
    SelectSeq(registrations(triggers, n),
        LAMBDA l : l.target = "window" /\ l.handler # "stop_recorder")

\* The 'beforeunload' listeners the start script puts on window for
\* recorder n: the stop handler if given, and a closure stopping n.
unload_listeners(triggers, n) ==
    SelectSeq(registrations(triggers, n), LAMBDA l : l.target = "window")

\* MediaRecorder.stop(): nothing on an inactive recorder; otherwise the
\* recorder is inactive at once and a task is queued that hands out the
\* gathered data and then fires 'stop'.
mediaRecorder_stop(m, r) ==
    IF m.recorders[r].state = "inactive" THEN m
    ELSE [recorders |-> [m.recorders EXCEPT ![r].state = "inactive"],
          tasks |-> Append(m.tasks, [rec |-> r, type |-> "stop", blob |-> NoBlob])]

----------------------------------------------------------------------------
(* Initial state. *)

\* The configurations of the component that are tried: no handler at all,
\* the data handler alone (no timeslice: one chunk at stop), the demo's
\* (webcam_demo.py, webcam_upload_component), and all four handlers.
Configurations ==
    { [event_triggers |-> {}, timeslice |-> 0],
      [event_triggers |-> {"on_data_available"}, timeslice |-> 0],
      [event_triggers |-> {"on_data_available", "on_start", "on_stop"},
       timeslice |-> 1000],
      [event_triggers |-> HANDLERS, timeslice |-> 1000] }

\* Where one client alone is looked at, the table of clients is not used.
OneClient ==
    /\ clients = <<>>
    /\ uploads = <<>>

\* Nothing has happened yet: no recorder, no listener, no artifact.
Fresh ==
    /\ raised = 0
    /\ recorders = <<>>
    /\ refs_mediarecorder = 0
    /\ window_listeners = <<>>
    /\ tasks = <<>>
    /\ readers = {}
    /\ event_queue = <<>>
    /\ console = <<>>
    /\ unloaded = FALSE
    /\ unload_recording = FALSE
    /\ recording = FALSE
    /\ n_recordings = 0
    /\ active_tab = SCREENSHOT_TAB
    /\ file_exists = FALSE
    /\ file_bytes = <<>>
    /\ video_exists = FALSE
    /\ emitted = <<>>
    /\ delivered = <<>>
    /\ stopped_bytes = [rec |-> 0, bytes |-> <<>>]
    /\ artifact_rec = 0
    /\ urls = <<>>
    /\ n_starts = 0
    /\ idle_stops = FALSE
    /\ last_screenshot = <<>>
    /\ last_screenshot_timestamp = ""
    /\ loading = FALSE
    /\ handled_screenshots = <<>>

Init ==
    /\ \E c \in Configurations :
          /\ event_triggers = c.event_triggers
          /\ timeslice = c.timeslice
    /\ Fresh
    /\ OneClient
    /\ out = <<>>

----------------------------------------------------------------------------
(* The actions of the Webcam component: start and stop. *)

\* What has come in from outside so far: uses of start, and blobs handed
\* out at a timeslice.
n_inputs ==
    n_starts + Len(SelectSeq(emitted, LAMBDA blob : ~blob.final))

\* The session of the handle is Idle: no recorder of its is recording.
Idle ==
    \/ refs_mediarecorder = 0
    \/ recorders[refs_mediarecorder].state = "inactive"

\* The start script stopping the previous recorder last, after the new one
\* has begun to record.
mediarecorder_start_stop_last(new_ok, start_ok) ==
    LET n  == Len(recorders) + 1
        on_error == on_error_handler(event_triggers)
    IN  IF ~new_ok
        THEN LET b == call(on_error, NoBlob, Browser, 0)
             IN  /\ event_queue' = b.event_queue
                 /\ console' = b.console
                 /\ UNCHANGED <<recorders, tasks, refs_mediarecorder,
                                window_listeners>>
        ELSE LET b == IF start_ok THEN Browser
                      ELSE call(on_error, NoBlob, Browser, n)
                 m0 == [recorders |-> Append(recorders,
                           [state |-> IF start_ok THEN "recording" ELSE "inactive",
                            listeners |-> recorder_listeners(event_triggers, n)]),
                        tasks |-> IF start_ok
                                  THEN Append(tasks,
                                         [rec |-> n, type |-> "start",
                                          blob |-> NoBlob])
                                  ELSE tasks]
                 m1 == IF refs_mediarecorder # 0
                       THEN mediaRecorder_stop(m0, refs_mediarecorder)
                       ELSE m0
             IN  /\ recorders' = m1.recorders
                 /\ tasks' = m1.tasks
                 /\ refs_mediarecorder' = n
                 /\ window_listeners' =
                        window_listeners \o unload_listeners(event_triggers, n)
                 /\ event_queue' = b.event_queue
                 /\ console' = b.console

\* The start script without the try around mediaRecorderRef.start: a failure
\* to begin recording ends the script and reaches no error handler.
mediarecorder_start_uncaught(new_ok, start_ok) ==
    LET m0 == [recorders |-> recorders, tasks |-> tasks]
        m1 == IF refs_mediarecorder # 0
              THEN mediaRecorder_stop(m0, refs_mediarecorder)
              ELSE m0
        n  == Len(recorders) + 1
        on_error == on_error_handler(event_triggers)
    IN  IF ~new_ok
        THEN LET b == call(on_error, NoBlob, Browser, 0)
             IN  /\ recorders' = m1.recorders
                 /\ tasks' = m1.tasks
                 /\ event_queue' = b.event_queue
                 /\ console' = b.console
                 /\ UNCHANGED <<refs_mediarecorder, window_listeners>>
        ELSE /\ recorders' = Append(m1.recorders,
                    [state |-> IF start_ok THEN "recording" ELSE "inactive",
                     listeners |-> recorder_listeners(event_triggers, n)])
             /\ refs_mediarecorder' = n
             /\ window_listeners' =
                    window_listeners \o unload_listeners(event_triggers, n)
             /\ tasks' = IF start_ok
                         THEN Append(m1.tasks,
                                [rec |-> n, type |-> "start", blob |-> NoBlob])
                         ELSE m1.tasks
             /\ UNCHANGED <<event_queue, console>>

\* The start script without the `return` of its first catch: after the
\* failure is reported the script goes on with mediaRecorderRef as it was,
\* the previous recorder, or undefined (and then it ends at the TypeError).
mediarecorder_start_no_return(new_ok, start_ok) ==
    LET m0 == [recorders |-> recorders, tasks |-> tasks]
        m1 == IF refs_mediarecorder # 0
              THEN mediaRecorder_stop(m0, refs_mediarecorder)
              ELSE m0
        n  == IF new_ok THEN Len(recorders) + 1 ELSE refs_mediarecorder
        on_error == on_error_handler(event_triggers)
        b0 == IF new_ok THEN Browser ELSE call(on_error, NoBlob, Browser, 0)
        b  == IF start_ok THEN b0 ELSE call(on_error, NoBlob, b0, n)
        new == [state |-> IF start_ok THEN "recording" ELSE "inactive",
                listeners |-> recorder_listeners(event_triggers, n)]
    IN  IF n = 0
        THEN /\ event_queue' = b0.event_queue
             /\ console' = b0.console
             /\ UNCHANGED <<recorders, tasks, refs_mediarecorder,
                            window_listeners>>
        ELSE /\ recorders' =
                   IF new_ok THEN Append(m1.recorders, new)
                   ELSE [m1.recorders EXCEPT
                           ![n].state = new.state,
                           ![n].listeners = @ \o new.listeners]
             /\ refs_mediarecorder' = n
             /\ window_listeners' =
                    window_listeners \o unload_listeners(event_triggers, n)
             /\ tasks' = IF start_ok
                         THEN Append(m1.tasks,
                                [rec |-> n, type |-> "start", blob |-> NoBlob])
                         ELSE m1.tasks
             /\ event_queue' = b.event_queue
             /\ console' = b.console

\* refs['mediarecorder_start_<ref>'], the callback of START_RECORDING_JS_TEMPLATE.
\* new_ok: the MediaRecorder constructor does not throw;
\* start_ok: MediaRecorder.start does not throw.
mediarecorder_start(new_ok, start_ok) ==
    LET m0 == [recorders |-> recorders, tasks |-> tasks]
        m1 == IF refs_mediarecorder # 0
              THEN mediaRecorder_stop(m0, refs_mediarecorder)
              ELSE m0
        n  == Len(recorders) + 1
        on_error == on_error_handler(event_triggers)
    IN  IF ~new_ok
        THEN LET b == call(on_error, NoBlob, Browser, 0)
             IN  /\ recorders' = m1.recorders
                 /\ tasks' = m1.tasks
                 /\ event_queue' = b.event_queue
                 /\ console' = b.console
                 /\ UNCHANGED <<refs_mediarecorder, window_listeners>>
        ELSE LET b == IF start_ok THEN Browser
                      ELSE call(on_error, NoBlob, Browser, n)
             IN  /\ recorders' = Append(m1.recorders,
                        [state |-> IF start_ok THEN "recording" ELSE "inactive",
                         listeners |-> recorder_listeners(event_triggers, n)])
                 /\ refs_mediarecorder' = n
                 /\ window_listeners' =
                        window_listeners \o unload_listeners(event_triggers, n)
                 /\ tasks' = IF start_ok
                             THEN Append(m1.tasks,
                                    [rec |-> n, type |-> "start", blob |-> NoBlob])
                             ELSE m1.tasks
                 /\ event_queue' = b.event_queue
                 /\ console' = b.console

\* Webcam.start without its check of on_data_available: the event runs
\* whatever hook there is, and without the handler add_hooks made none.
start_unchecked(new_ok, start_ok) ==
    /\ ~unloaded
    /\ n_inputs < MaxInputs
    /\ n_starts' = n_starts + 1
    /\ IF "on_data_available" \notin event_triggers
       THEN UNCHANGED <<recorders, refs_mediarecorder, window_listeners,
                        tasks, event_queue, console>>
       ELSE mediarecorder_start(new_ok, start_ok)
    /\ UNCHANGED <<raised, readers, unloaded, unload_recording, emitted, delivered, idle_stops, out>>
    /\ UNCHANGED <<config_vars, backend_vars, screenshot_vars, clients_vars>>

\* Webcam.start and the script it issues.
start(new_ok, start_ok) ==
    /\ ~unloaded
    /\ n_inputs < MaxInputs
    /\ n_starts' = n_starts + 1
    /\ IF "on_data_available" \notin event_triggers
       THEN /\ raised' = raised + 1
            /\ UNCHANGED <<recorders, refs_mediarecorder, window_listeners,
                           tasks, event_queue, console>>
       ELSE /\ mediarecorder_start(new_ok, start_ok)
            /\ UNCHANGED raised
    /\ UNCHANGED <<readers, unloaded, unload_recording, emitted, delivered, idle_stops, out>>
    /\ UNCHANGED <<config_vars, backend_vars, screenshot_vars, clients_vars>>

\* The session is Idle after a recording that is over: the last recorder
\* made is inactive, and its tasks, its chunks and its events are through.
idle_after_recording ==
    /\ refs_mediarecorder # 0
    /\ recorders[refs_mediarecorder].state = "inactive"
    /\ tasks = <<>>
    /\ readers = {}
    /\ event_queue = <<>>

\* A stop script that reports the stop itself instead of leaving it to
\* the recorder's 'stop' event.
stop_reporting ==
    /\ ~unloaded
    /\ LET m == IF refs_mediarecorder # 0
                THEN mediaRecorder_stop([recorders |-> recorders, tasks |-> tasks],
                                        refs_mediarecorder)
                ELSE [recorders |-> recorders, tasks |-> tasks]
       IN  /\ recorders' = m.recorders
           /\ tasks' = m.tasks
    /\ event_queue' = IF "on_stop" \in event_triggers /\ event_queue = <<>>
                      THEN add_event(Browser, "on_stop", refs_mediarecorder).event_queue
                      ELSE event_queue
    /\ idle_stops' = (idle_stops \/ idle_after_recording)
    /\ UNCHANGED <<raised, refs_mediarecorder, window_listeners, readers,
                   console, unloaded, unload_recording, emitted, delivered, n_starts, out>>
    /\ UNCHANGED <<config_vars, backend_vars, screenshot_vars, clients_vars>>

\* Webcam.stop and the script it issues.
stop ==
    /\ ~unloaded
    /\ LET m == IF refs_mediarecorder # 0
                THEN mediaRecorder_stop([recorders |-> recorders, tasks |-> tasks],
                                        refs_mediarecorder)
                ELSE [recorders |-> recorders, tasks |-> tasks]
       IN  /\ recorders' = m.recorders
           /\ tasks' = m.tasks
    /\ idle_stops' = (idle_stops \/ idle_after_recording)
    /\ UNCHANGED <<raised, refs_mediarecorder, window_listeners, readers,
                   event_queue, console, unloaded, unload_recording, emitted, delivered,
                   n_starts, out>>
    /\ UNCHANGED <<config_vars, backend_vars, screenshot_vars, clients_vars>>

----------------------------------------------------------------------------
(* The browser's own steps. *)

\* The blob the device hands out next: empty, or one byte that tells it
\* from every other blob.
next_blob(r, size, final) ==
    LET id == Len(emitted) + 1
    IN  [id |-> id, rec |-> r, data |-> IF size > 0 THEN <<id>> ELSE <<>>,
         final |-> final]

\* The timeslice of a recording recorder has elapsed: a task is queued
\* that fires 'dataavailable' with the data gathered.
timeslice_elapsed(r, size) ==
    /\ ~unloaded
    /\ timeslice > 0
    /\ r \in 1..Len(recorders)
    /\ recorders[r].state = "recording"
    /\ n_inputs < MaxInputs
    /\ emitted' = Append(emitted, next_blob(r, size, FALSE))
    /\ tasks' = Append(tasks, [rec |-> r, type |-> "dataavailable",
                               blob |-> next_blob(r, size, FALSE)])
    /\ UNCHANGED <<raised, recorders, refs_mediarecorder, window_listeners,
                   readers, event_queue, console, unloaded, unload_recording, delivered,
                   n_starts, idle_stops, out>>
    /\ UNCHANGED <<config_vars, backend_vars, screenshot_vars, clients_vars>>

\* The browser runs the oldest MediaRecorder task.  The task of a stop
\* fires 'dataavailable' with the remaining data (size) and then 'stop'.
run_task(size) ==
    /\ ~unloaded
    /\ tasks # <<>>
    /\ LET t == Head(tasks)
           ls == recorders[t.rec].listeners
       IN  CASE t.type = "start" ->
                  /\ size = 0
                  /\ LET b == dispatch(ls, "start", NoBlob, Browser, t.rec)
                     IN  /\ readers' = b.readers
                         /\ event_queue' = b.event_queue
                         /\ console' = b.console
                  /\ UNCHANGED emitted
             [] t.type = "dataavailable" ->
                  /\ size = 0
                  /\ LET b == dispatch(ls, "dataavailable", t.blob, Browser, t.rec)
                     IN  /\ readers' = b.readers
                         /\ event_queue' = b.event_queue
                         /\ console' = b.console
                  /\ UNCHANGED emitted
             [] t.type = "stop" ->
                  /\ LET last == next_blob(t.rec, size, TRUE)
                         b1 == dispatch(ls, "dataavailable", last, Browser, t.rec)
                         b2 == dispatch(ls, "stop", NoBlob, b1, t.rec)
                     IN  /\ readers' = b2.readers
                         /\ event_queue' = b2.event_queue
                         /\ console' = b2.console
                         /\ emitted' = Append(emitted, last)
    /\ tasks' = Tail(tasks)
    /\ UNCHANGED <<raised, recorders, refs_mediarecorder, window_listeners,
                   unloaded, unload_recording, delivered, n_starts, idle_stops, out>>
    /\ UNCHANGED <<config_vars, backend_vars, screenshot_vars, clients_vars>>

\* a.onload of one of the FileReaders at work: the data URI goes to the
\* on_data_available handler.  The readers finish in any order.
reader_onload(blob) ==
    /\ ~unloaded
    /\ blob \in readers
    /\ readers' = readers \ {blob}
    /\ event_queue' = Append(event_queue,
            [name |-> "on_data_available", payload |-> readAsDataURL(blob),
             rec |-> blob.rec])
    /\ delivered' = Append(delivered, blob)
    /\ UNCHANGED <<raised, recorders, refs_mediarecorder, window_listeners,
                   tasks, console, unloaded, unload_recording, emitted, n_starts, idle_stops, out>>
    /\ UNCHANGED <<config_vars, backend_vars, screenshot_vars, clients_vars>>

\* The 'beforeunload' listeners of window, called in the order of their
\* registration.
RECURSIVE fire_unload(_, _)
fire_unload(listeners, w) ==
    IF listeners = <<>> THEN w
    ELSE LET l == Head(listeners)
             w1 == IF l.handler = "on_stop"
                   THEN [w EXCEPT !.event_queue =
                            Append(@, [name |-> "on_stop", payload |-> <<>>,
                                       rec |-> 0])]
                   ELSE LET m == mediaRecorder_stop(
                                    [recorders |-> w.recorders, tasks |-> w.tasks],
                                    l.rec)
                        IN  [w EXCEPT !.recorders = m.recorders,
                                      !.tasks = m.tasks]
         IN  fire_unload(Tail(listeners), w1)

\* The page is unloaded: 'beforeunload' fires, and then the document is
\* gone with the tasks it had queued and the FileReaders it had at work.
\* The events its listeners have sent are on their way to the backend.
beforeunload ==
    /\ ~unloaded
    /\ LET w == fire_unload(window_listeners,
                    [recorders |-> recorders, tasks |-> tasks,
                     event_queue |-> event_queue])
       IN  /\ recorders' = w.recorders
           /\ event_queue' = w.event_queue
    /\ tasks' = <<>>
    /\ readers' = {}
    /\ unloaded' = TRUE
    /\ unload_recording' = ~Idle
    /\ UNCHANGED <<raised, refs_mediarecorder, window_listeners,
                   console, emitted, delivered, n_starts, idle_stops, out>>
    /\ UNCHANGED <<config_vars, backend_vars, screenshot_vars, clients_vars>>

----------------------------------------------------------------------------
(* The event handlers of the demo application's State. *)

unchanged_by_backend ==
    UNCHANGED <<raised, recorders, refs_mediarecorder, window_listeners, tasks,
                readers, console, unloaded, unload_recording, emitted, delivered, n_starts,
                idle_stops, out, event_triggers, timeslice, screenshot_vars,
                clients_vars>>

\* on_start_recording that leaves the counter alone.
on_start_recording_same_generation ==
    /\ event_queue # <<>>
    /\ Head(event_queue).name = "on_start"
    /\ event_queue' = Tail(event_queue)
    /\ recording' = TRUE
    /\ file_exists' = TRUE
    /\ file_bytes' = <<>>
    /\ video_exists' = file_exists'
    /\ urls' = Append(urls, video_url(n_recordings))
    /\ artifact_rec' = Head(event_queue).rec
    /\ UNCHANGED <<n_recordings, active_tab, stopped_bytes>>
    /\ unchanged_by_backend

\* State.on_start_recording.  video_exists is a cached var with
\* deps=["recording"]: it is computed anew after a handler that has
\* assigned recording.
on_start_recording ==
    /\ event_queue # <<>>
    /\ Head(event_queue).name = "on_start"
    /\ event_queue' = Tail(event_queue)
    /\ recording' = TRUE
    /\ n_recordings' = n_recordings + 1
    /\ file_exists' = TRUE
    /\ file_bytes' = <<>>
    /\ video_exists' = file_exists'
    /\ urls' = Append(urls, video_url(n_recordings'))
    /\ artifact_rec' = Head(event_queue).rec
    /\ UNCHANGED <<active_tab, stopped_bytes>>
    /\ unchanged_by_backend

\* State.handle_video_chunk: the file is opened for appending (and so
\* made), then the normalised chunk is decoded and its bytes written.  A
\* chunk that does not decode raises before anything is written.
handle_video_chunk ==
    /\ event_queue # <<>>
    /\ Head(event_queue).name = "on_data_available"
    /\ event_queue' = Tail(event_queue)
    /\ LET vid == urlopen(strip_codec_part(Head(event_queue).payload))
       IN  /\ file_exists' = TRUE
           /\ file_bytes' = IF vid.ok THEN file_bytes \o vid.bytes ELSE file_bytes
    /\ UNCHANGED <<recording, n_recordings, active_tab, video_exists,
                   stopped_bytes, artifact_rec, urls>>
    /\ unchanged_by_backend

\* on_stop_recording as it would be if the stop advanced the generation counter.
on_stop_recording_counting ==
    /\ event_queue # <<>>
    /\ Head(event_queue).name = "on_stop"
    /\ event_queue' = Tail(event_queue)
    /\ recording' = FALSE
    /\ n_recordings' = n_recordings + 1
    /\ active_tab' = VIDEO_TAB
    /\ video_exists' = file_exists
    /\ stopped_bytes' = [rec |-> Head(event_queue).rec, bytes |-> file_bytes]
    /\ UNCHANGED <<file_exists, file_bytes, artifact_rec, urls>>
    /\ unchanged_by_backend

\* State.on_stop_recording.
on_stop_recording ==
    /\ event_queue # <<>>
    /\ Head(event_queue).name = "on_stop"
    /\ event_queue' = Tail(event_queue)
    /\ recording' = FALSE
    /\ active_tab' = VIDEO_TAB
    /\ video_exists' = file_exists
    /\ stopped_bytes' = [rec |-> Head(event_queue).rec, bytes |-> file_bytes]
    /\ UNCHANGED <<n_recordings, file_exists, file_bytes, artifact_rec, urls>>
    /\ unchanged_by_backend

\* The application's on_error handler: the demo's State keeps nothing of it.
on_error_event ==
    /\ event_queue # <<>>
    /\ Head(event_queue).name = "on_error"
    /\ event_queue' = Tail(event_queue)
    /\ UNCHANGED backend_vars
    /\ unchanged_by_backend

----------------------------------------------------------------------------
(* The specification of the recording bridge. *)

Next ==
    \/ \E new_ok \in BOOLEAN, start_ok \in BOOLEAN : start(new_ok, start_ok)
    \/ stop
    \/ \E r \in 1..MaxInputs, size \in {0, 1} : timeslice_elapsed(r, size)
    \/ \E size \in {0, 1} : run_task(size)
    \/ \E blob \in readers : reader_onload(blob)
    \/ beforeunload
    \/ on_start_recording
    \/ handle_video_chunk
    \/ on_stop_recording
    \/ on_error_event

Spec == Init /\ [][Next]_vars

----------------------------------------------------------------------------
(* The specification of the normaliser alone: strip_codec_part applied  *)
(* again and again to a payload.                                        *)

\* "video/webm;codecs=vp8;foo=bar"
EXAMPLE ==
    <<"v", "i", "d", "e", "o", "/", "w", "e", "b", "m", ";">> \o CODECS
        \o <<"v", "p", "8", ";", "f", "o", "o", "=", "b", "a", "r">>

\* "video/webm;foo=bar"
EXAMPLE_NORMALISED ==
    <<"v", "i", "d", "e", "o", "/", "w", "e", "b", "m", ";",
      "f", "o", "o", "=", "b", "a", "r">>

\* The pieces the payloads tried are put together from.
Atoms == { <<";">>, CODECS, <<"c", "o", "d", "e", "c", "s">>, <<"=">>, <<"v">> }

Payloads ==
    {EXAMPLE} \cup
    { Flatten(as) : as \in UNION { [1..n -> Atoms] : n \in 0..MaxAtoms } }

NormaliserInit ==
    /\ event_triggers = {}
    /\ timeslice = 0
    /\ Fresh
    /\ OneClient
    /\ out \in { <<x>> : x \in Payloads }

normalise ==
    /\ Len(out) < 3
    /\ out' = Append(out, strip_codec_part(out[Len(out)]))
    /\ UNCHANGED <<config_vars, browser_vars, backend_vars, raised, n_starts,
                   idle_stops, screenshot_vars, clients_vars>>

NormaliserNext == normalise

NormaliserSpec == NormaliserInit /\ [][NormaliserNext]_vars

----------------------------------------------------------------------------
(* Properties. *)

NoDuplicates(s) == \A i, j \in 1..Len(s) : i # j => s[i] # s[j]

Increasing(s) == \A i, j \in 1..Len(s) : i < j => s[i] < s[j]

\* The bytes recorder r has handed out, in the order of emission.
bytes_emitted(r) ==
    LET of_r == SelectSeq(emitted, LAMBDA blob : blob.rec = r)
    IN  Flatten([i \in 1..Len(of_r) |-> of_r[i].data])

\* The number of segments of a payload that contain "codecs=".
codec_segments(x) ==
    Cardinality({i \in 1..Len(split(x, ";")) : Contains(split(x, ";")[i], CODECS)})

\* C1: when start() runs a second time while the recorder of the first
\* start is recording, and the new recorder records, then afterwards
\* exactly one recorder is recording, no recorder has a listener twice,
\* window has no page-unload handler twice, and no chunk has been passed
\* to on_data_available twice.
C1_OneRecorderNoDuplicates ==
    [][(/\ n_starts = 1
        /\ Len(recorders) = 1
        /\ recorders[1].state = "recording"
        /\ n_starts' = 2
        /\ Len(recorders') = 2
        /\ recorders'[2].state = "recording")
       => /\ Cardinality({r \in 1..Len(recorders') :
                             recorders'[r].state = "recording"}) = 1
          /\ refs_mediarecorder' = 2
          /\ \A r \in 1..Len(recorders') : NoDuplicates(recorders'[r].listeners)
          /\ NoDuplicates([i \in 1..Len(window_listeners') |->
                               window_listeners'[i].handler])
          /\ NoDuplicates([i \in 1..Len(delivered') |-> delivered'[i].id])]_vars

\* C2: chunks reach on_data_available, and their bytes the artifact, in the
\* order the recorder emitted them (a blob's byte is its emission number).
C2_EmissionOrderKept ==
    /\ Increasing([i \in 1..Len(delivered) |-> delivered[i].id])
    /\ Increasing(file_bytes)

\* C3: when on_stop_recording marks the recording of a session finished
\* that was started from Idle (start() was used once), the artifact holds
\* all the bytes its recorder emitted, the final chunk included, in
\* emission order.
C3_FlushedBeforeStop ==
    (/\ "on_start" \in event_triggers
     /\ n_starts = 1
     /\ stopped_bytes.rec = 1)
    => stopped_bytes.bytes = bytes_emitted(1)

\* C4: without an on_data_available handler every start() raises
\* ValueError and nothing reaches the browser: no recorder, no listener,
\* no task, no event; the session stays Idle.
C4_StartRequiresHandler ==
    "on_data_available" \notin event_triggers
    => /\ raised = n_starts
       /\ recorders = <<>>
       /\ refs_mediarecorder = 0
       /\ window_listeners = <<>>
       /\ tasks = <<>>
       /\ event_queue = <<>>
       /\ Idle

C4_Witness ==
    /\ "on_data_available" \notin event_triggers
    /\ raised > 0

\* C5: stop() in an Idle state, before any recording or after one has
\* stopped, changes nothing: no recorder is signalled, no task is queued,
\* no event is sent, the State is as it was.
C5_StopWhenIdleIsNoOp ==
    [][(Idle /\ stop)
       => UNCHANGED <<config_vars, browser_vars, backend_vars, raised,
                      n_starts, out>>]_vars

\* stop() has been used after a recording was over, and the session is
\* in that state still; a recording there was: the artifact has been
\* started and marked finished.
C5_Witness ==
    /\ idle_stops
    /\ idle_after_recording
    /\ n_recordings > 0
    /\ ~recording
    /\ ~unloaded

\* C6: no empty chunk is read, passed to on_data_available or sent to the
\* reassembler: every chunk on its way decodes to at least one byte.
C6_NoEmptyChunkForwarded ==
    /\ \A blob \in readers : Len(blob.data) > 0
    /\ \A i \in 1..Len(delivered) : Len(delivered[i].data) > 0
    /\ \A i \in 1..Len(event_queue) :
          event_queue[i].name = "on_data_available"
          => Len(urlopen(strip_codec_part(event_queue[i].payload)).bytes) > 0

\* An empty blob has been handed to the dataavailable listener, and a
\* chunk that is not empty has been passed on.
C6_Witness ==
    /\ \E i \in 1..Len(emitted) :
          /\ emitted[i].data = <<>>
          /\ \A k \in 1..Len(tasks) : tasks[k].blob # emitted[i]
    /\ delivered # <<>>

\* C7: video_exists is false whenever State.recording is true.
C7_NotExistsWhileRecording ==
    recording => ~video_exists

\* C8 as stated: normalising twice gives what normalising once gives, for
\* every payload.
C8_Idempotent ==
    Len(out) = 3 => out[3] = out[2]

\* C8 amended: normalising twice gives what normalising once gives, for
\* every payload with at most one segment containing "codecs=".
C8_IdempotentOnSingleCodec ==
    (Len(out) = 3 /\ codec_segments(out[1]) <= 1) => out[3] = out[2]

C8_Witness ==
    /\ Len(out) = 3
    /\ codec_segments(out[1]) = 1
    /\ out[2] # out[1]

\* C9: the result is the payload's segments without the first one that
\* contains "codecs=" (all of them if none does), joined by ";" in their
\* order; "video/webm;codecs=vp8;foo=bar" gives "video/webm;foo=bar".
C9_FirstCodecSegmentRemoved ==
    Len(out) >= 2
    => LET segs == split(out[1], ";")
           hits == {i \in 1..Len(segs) : Contains(segs[i], CODECS)}
           kept == IF hits = {} THEN segs ELSE RemoveAt(segs, Min(hits))
       IN  /\ split(out[2], ";") =
                 IF kept = <<>> THEN << <<>> >> ELSE kept
           /\ out[1] = EXAMPLE => out[2] = EXAMPLE_NORMALISED

C9_Witness ==
    /\ Len(out) >= 2
    /\ codec_segments(out[1]) >= 2
    /\ codec_segments(out[2]) = codec_segments(out[1]) - 1

\* C10: n_recordings changes only in on_start_recording, which adds 1 to
\* it, and the video urls of different recordings are different strings.
C10_GenerationCounter ==
    [][/\ (n_recordings' # n_recordings => on_start_recording)
       /\ (on_start_recording => n_recordings' = n_recordings + 1)
       /\ NoDuplicates(urls')]_vars

C10_Witness ==
    /\ Len(urls) >= 2
    /\ n_recordings = 2

----------------------------------------------------------------------------
\* C11 as stated: on_stop_recording adds one to the generation counter
\* n_recordings when it marks the artifact complete.
C11_StopIncrementsGeneration ==
    [][on_stop_recording => n_recordings' = n_recordings + 1]_vars

\* C11: on_stop_recording marks the artifact complete (recording becomes
\* False, the video tab is selected) and leaves the generation counter
\* n_recordings as it was; the counter moved when the recording started.
C11_StopKeepsGeneration ==
    [][on_stop_recording =>
          /\ ~recording'
          /\ active_tab' = VIDEO_TAB
          /\ n_recordings' = n_recordings
          /\ n_recordings' = Len(urls')]_vars

\* A recording was started and its stop has been processed.
C11_Witness ==
    /\ stopped_bytes.rec >= 1
    /\ ~recording
    /\ active_tab = VIDEO_TAB
    /\ n_recordings = 1

----------------------------------------------------------------------------
(* Screenshot capture: upload_screenshot and State.handle_screenshot. *)

\* Webcam.screenshot_format, the default.
SCREENSHOT_FORMAT == <<"i", "m", "a", "g", "e", "/", "j", "p", "e", "g">>

\* The frames the camera can show, and the readings of the clock.
Frames == {1, 2}
Clock == {"10:00:00", "10:00:01"}

\* refs['ref_<id>'].current.getScreenshot(): null (written <<>>) when the
\* handle has no stream, else the frame as a data url in the handle's format.
getScreenshot(has_stream, frame) ==
    IF has_stream
    THEN <<"d", "a", "t", "a", ":">> \o SCREENSHOT_FORMAT
            \o <<";", "b", "a", "s", "e", "6", "4", ",">> \o b64encode(<<frame>>)
    ELSE <<>>

\* The script of upload_screenshot: rx.call_script passes the value of the
\* expression to the callback, once.
upload_screenshot(has_stream, frame) ==
    /\ Len(handled_screenshots) + Len(event_queue) < MaxShots
    /\ event_queue' = Append(event_queue,
          [name |-> "handle_screenshot",
           payload |-> getScreenshot(has_stream, frame), rec |-> 0])
    /\ UNCHANGED <<config_vars, browser_vars_but_queue, backend_vars, raised,
                   n_starts, idle_stops, screenshot_vars, clients_vars, out>>

\* The tabs' on_change: State.set_active_tab is sent the tab chosen.
tabs_on_change(tab_value) ==
    /\ Len(handled_screenshots) + Len(event_queue) < MaxShots
    /\ event_queue' = Append(event_queue,
          [name |-> "set_active_tab", payload |-> tab_value, rec |-> 0])
    /\ UNCHANGED <<config_vars, browser_vars_but_queue, backend_vars, raised,
                   n_starts, idle_stops, screenshot_vars, clients_vars, out>>

\* State.set_active_tab.
set_active_tab ==
    /\ event_queue # <<>>
    /\ Head(event_queue).name = "set_active_tab"
    /\ event_queue' = Tail(event_queue)
    /\ active_tab' = Head(event_queue).payload
    /\ UNCHANGED <<recording, n_recordings, file_exists, file_bytes,
                   video_exists, stopped_bytes, artifact_rec, urls>>
    /\ UNCHANGED <<config_vars, browser_vars_but_queue, raised, n_starts,
                   idle_stops, screenshot_vars, clients_vars, out>>

\* handle_screenshot without the test for an empty payload.
handle_screenshot_unguarded(now) ==
    /\ event_queue # <<>>
    /\ Head(event_queue).name = "handle_screenshot"
    /\ event_queue' = Tail(event_queue)
    /\ LET img_data_uri == Head(event_queue).payload
           img == urlopen(img_data_uri)
       IN  IF loading
           THEN /\ handled_screenshots' = Append(handled_screenshots, "ignored")
                /\ UNCHANGED <<last_screenshot, last_screenshot_timestamp,
                               active_tab>>
           ELSE /\ last_screenshot_timestamp' = now
                /\ IF img.ok
                   THEN /\ last_screenshot' = img.bytes
                        /\ active_tab' = SCREENSHOT_TAB
                        /\ handled_screenshots' =
                              Append(handled_screenshots, "taken")
                   ELSE /\ handled_screenshots' =
                              Append(handled_screenshots, "raised")
                        /\ UNCHANGED <<last_screenshot, active_tab>>
    /\ UNCHANGED <<recording, n_recordings, file_exists, file_bytes,
                   video_exists, stopped_bytes, artifact_rec, urls, loading>>
    /\ UNCHANGED <<config_vars, browser_vars_but_queue, raised, n_starts,
                   idle_stops, clients_vars, out>>

\* State.handle_screenshot: nothing is done while loading or with an empty
\* payload; else the time is noted, the image decoded and kept, and the
\* screenshot tab selected.  An image that does not decode raises after the
\* time was noted.
handle_screenshot(now) ==
    /\ event_queue # <<>>
    /\ Head(event_queue).name = "handle_screenshot"
    /\ event_queue' = Tail(event_queue)
    /\ LET img_data_uri == Head(event_queue).payload
           img == urlopen(img_data_uri)
       IN  IF loading \/ img_data_uri = <<>>
           THEN /\ handled_screenshots' = Append(handled_screenshots, "ignored")
                /\ UNCHANGED <<last_screenshot, last_screenshot_timestamp,
                               active_tab>>
           ELSE /\ last_screenshot_timestamp' = now
                /\ IF img.ok
                   THEN /\ last_screenshot' = img.bytes
                        /\ active_tab' = SCREENSHOT_TAB
                        /\ handled_screenshots' =
                              Append(handled_screenshots, "taken")
                   ELSE /\ handled_screenshots' =
                              Append(handled_screenshots, "raised")
                        /\ UNCHANGED <<last_screenshot, active_tab>>
    /\ UNCHANGED <<recording, n_recordings, file_exists, file_bytes,
                   video_exists, stopped_bytes, artifact_rec, urls, loading>>
    /\ UNCHANGED <<config_vars, browser_vars_but_queue, raised, n_starts,
                   idle_stops, clients_vars, out>>

\* The page of the demo, as webcam_upload_component configures it.
ScreenshotInit ==
    /\ event_triggers = {"on_data_available", "on_start", "on_stop"}
    /\ timeslice = 1000
    /\ Fresh
    /\ OneClient
    /\ out = <<>>

ScreenshotNext ==
    \/ \E has_stream \in BOOLEAN, frame \in Frames :
          upload_screenshot(has_stream, frame)
    \/ \E tab_value \in {SCREENSHOT_TAB, VIDEO_TAB} : tabs_on_change(tab_value)
    \/ set_active_tab
    \/ \E now \in Clock : handle_screenshot(now)

ScreenshotSpec == ScreenshotInit /\ [][ScreenshotNext]_vars

----------------------------------------------------------------------------
\* C12: a screenshot trigger on a handle without a stream sends the delivery
\* handler exactly one event, with an empty payload, and handle_screenshot
\* given an empty payload leaves last_screenshot, last_screenshot_timestamp
\* and active_tab as they were and raises nothing.
C12_EmptyScreenshotIgnored ==
    [][/\ \A frame \in Frames :
             upload_screenshot(FALSE, frame) =>
                event_queue' = Append(event_queue,
                    [name |-> "handle_screenshot", payload |-> <<>>, rec |-> 0])
       /\ \A now \in Clock :
             (handle_screenshot(now) /\ Head(event_queue).payload = <<>>) =>
                /\ UNCHANGED <<last_screenshot, last_screenshot_timestamp,
                               active_tab>>
                /\ handled_screenshots' = Append(handled_screenshots, "ignored")
      ]_vars

\* A screenshot was taken, the video tab chosen, and then an empty payload
\* was handled.
C12_Witness ==
    /\ handled_screenshots = <<"taken", "ignored">>
    /\ last_screenshot # <<>>
    /\ active_tab = VIDEO_TAB

----------------------------------------------------------------------------
\* The tasks of a queue that fire 'start'.
start_tasks(queue) ==
    SelectSeq(queue, LAMBDA t : t.type = "start")

----------------------------------------------------------------------------
\* The number of errors reported so far that are still to be seen: events
\* for on_error in the queue, and lines of the log sink.
reported(queue, log) ==
    Len(SelectSeq(queue, LAMBDA e : e.name = "on_error")) + Len(log)

----------------------------------------------------------------------------
\* The listeners registered by the run of the start script that made
\* recorder r, on the recorder and on window.
registered_by(r) ==
    {recorders[r].listeners[i] : i \in 1..Len(recorders[r].listeners)}
    \cup {window_listeners[i] : i \in
            {j \in 1..Len(window_listeners) : window_listeners[j].run = r}}

\* What a run registers according to the fixed order, for the handlers
\* given: <<target, type, handler>> for each listener.
expected_order(triggers) ==
    <<<<"recorder", "dataavailable", "dataavailable_listener">>>>
    \o (IF "on_start" \in triggers
        THEN <<<<"recorder", "start", "on_start">>>> ELSE <<>>)
    \o (IF "on_stop" \in triggers
        THEN <<<<"recorder", "stop", "on_stop">>,
               <<"window", "beforeunload", "on_stop">>>>
        ELSE <<>>)
    \o <<<<"recorder", "error",
           IF "on_error" \in triggers THEN "on_error" ELSE "console.log">>>>

\* C15: the listeners a start() registers follow the fixed order: data
\* available, then start if on_start is given, then stop together with a
\* page-unload listener for the same stop handler if on_stop is given, then
\* error; data-available and error are registered by every start, error
\* with the log sink when on_error is absent.  (The closure that stops the
\* recorder at page unload comes after them.)
C15_RegistrationOrder ==
    \A r \in 1..Len(recorders) :
        LET regs == registered_by(r)
            N == Cardinality(regs)
            expected == expected_order(event_triggers)
        IN  /\ N = Len(expected) + 1
            /\ Len(recorders[r].listeners) + 1
                  + (IF "on_stop" \in event_triggers THEN 1 ELSE 0) = N
            /\ \A k \in 1..Len(expected) :
                  \E l \in regs :
                     /\ l.order = k
                     /\ <<l.target, l.type, l.handler>> = expected[k]
            /\ \E l \in regs :
                  /\ l.order = N
                  /\ l.target = "window"
                  /\ l.handler = "stop_recorder"
                  /\ l.rec = r

\* Two starts with on_stop given and on_error absent: each has registered
\* its listeners, the log sink among them.
C15_Witness ==
    /\ Len(recorders) = 2
    /\ "on_stop" \in event_triggers
    /\ "on_error" \notin event_triggers
    /\ \A r \in 1..2 : Cardinality(registered_by(r)) = 6

----------------------------------------------------------------------------
----------------------------------------------------------------------------
\* C17: in every state in which a recorder is recording, window has a
\* 'beforeunload' listener that stops that recorder; and when the page is
\* unloaded while the handle's recorder is recording, that recorder is
\* stopped, no other recorder is touched, and the stop handler, if on_stop
\* is given, is sent (without it nothing is sent).
C17_UnloadStopsActiveRecorder ==
    [][/\ \A r \in 1..Len(recorders') :
             recorders'[r].state = "recording" =>
                \E i \in 1..Len(window_listeners') :
                   /\ window_listeners'[i].handler = "stop_recorder"
                   /\ window_listeners'[i].rec = r
       /\ (beforeunload /\ ~Idle) =>
             /\ recorders'[refs_mediarecorder].state = "inactive"
             /\ \A r \in 1..Len(recorders) :
                   r # refs_mediarecorder => recorders'[r] = recorders[r]
             /\ Idle'
             /\ IF "on_stop" \in event_triggers
                THEN /\ Len(event_queue') > Len(event_queue)
                     /\ SubSeq(event_queue', 1, Len(event_queue)) = event_queue
                     /\ \A i \in (Len(event_queue) + 1)..Len(event_queue') :
                           event_queue'[i].name = "on_stop"
                ELSE event_queue' = event_queue
      ]_vars

\* The page was unloaded while the second recorder was recording, the first
\* having been discarded, and on_stop was given.
C17_Witness ==
    /\ unloaded
    /\ unload_recording
    /\ Len(recorders) = 2
    /\ "on_stop" \in event_triggers
    /\ \E i \in 1..Len(event_queue) : event_queue[i].name = "on_stop"

----------------------------------------------------------------------------
(* The reassembler with several clients: each client token has a State of  *)
(* its own, and the artifacts are files of the one upload directory.       *)

Tokens == {"A", "B"}

VIDEO_FILE_NAME == <<"v", "i", "d", "e", "o", ".", "w", "e", "b", "m">>

\* The chunks a client may send: two well-formed ones, as readAsDataURL
\* makes them, one cut off inside its media type and one that is no url.
Chunks ==
    { readAsDataURL([id |-> 1, rec |-> 1, data |-> <<1>>, final |-> FALSE]),
      readAsDataURL([id |-> 2, rec |-> 1, data |-> <<2>>, final |-> FALSE]),
      <<"d", "a", "t", "a", ":", "v", "i", "d", "e", "o", "/", "w", "e", "b",
        "m", ";", "c", "o", "d", "e", "c", "s", "=", "v", "p", "8">>,
      <<"x">> }

\* _video_path as the older demo has it: one file name for every client.
client_video_path_shared(client_token) ==
    VIDEO_FILE_NAME

\* State._video_path of the client with the token: the file
\* "<client_token>_video.webm" of the upload directory.
client_video_path(client_token) ==
    <<client_token, "_">> \o VIDEO_FILE_NAME

\* Path.open(mode).write(data) on the upload directory: "wb" replaces the
\* content, "ab" adds to it; both make the file if it is not there.
write(files, path, mode, data) ==
    [p \in DOMAIN files \cup {path} |->
        IF p # path THEN files[p]
        ELSE IF mode = "ab" /\ path \in DOMAIN files
             THEN files[path] \o data
             ELSE data]

n_events ==
    LET RECURSIVE sum(_)
        sum(S) == IF S = {} THEN 0
                  ELSE LET c == CHOOSE x \in S : TRUE
                       IN  clients[c].events + sum(S \ {c})
    IN  sum(Tokens)

\* State.on_start_recording of client c.
client_on_start_recording(c) ==
    /\ n_events < MaxEvents
    /\ clients' = [clients EXCEPT ![c].recording = TRUE,
                                  ![c].n_recordings = @ + 1,
                                  ![c].events = @ + 1,
                                  ![c].chunks = <<>>,
                                  ![c].expected = <<>>]
    /\ uploads' = write(uploads, client_video_path(c), "wb", <<>>)
    /\ UNCHANGED <<config_vars, browser_vars, backend_vars, raised, n_starts,
                   idle_stops, screenshot_vars, out>>

\* handle_video_chunk opening the artifact with "wb".
client_handle_video_chunk_wb(c, chunk) ==
    /\ n_events < MaxEvents
    /\ LET vid == urlopen(strip_codec_part(chunk))
       IN  /\ uploads' = write(uploads, client_video_path(c), "wb",
                               IF vid.ok THEN vid.bytes ELSE <<>>)
           /\ clients' = [clients EXCEPT
                 ![c].events = @ + 1,
                 ![c].chunks = Append(@, IF vid.ok THEN "written" ELSE "raised"),
                 ![c].expected = IF vid.ok THEN @ \o vid.bytes ELSE @]
    /\ UNCHANGED <<config_vars, browser_vars, backend_vars, raised, n_starts,
                   idle_stops, screenshot_vars, out>>

\* State.handle_video_chunk of client c: the artifact is opened for
\* appending, the chunk decoded and its bytes written.  A chunk that does
\* not decode raises out of the handler after the file was opened.
client_handle_video_chunk(c, chunk) ==
    /\ n_events < MaxEvents
    /\ LET vid == urlopen(strip_codec_part(chunk))
       IN  /\ uploads' = write(uploads, client_video_path(c), "ab",
                               IF vid.ok THEN vid.bytes ELSE <<>>)
           /\ clients' = [clients EXCEPT
                 ![c].events = @ + 1,
                 ![c].chunks = Append(@, IF vid.ok THEN "written" ELSE "raised"),
                 ![c].expected = IF vid.ok THEN @ \o vid.bytes ELSE @]
    /\ UNCHANGED <<config_vars, browser_vars, backend_vars, raised, n_starts,
                   idle_stops, screenshot_vars, out>>

\* State.on_stop_recording of client c.
client_on_stop_recording(c) ==
    /\ n_events < MaxEvents
    /\ clients' = [clients EXCEPT ![c].recording = FALSE,
                                  ![c].active_tab = VIDEO_TAB,
                                  ![c].events = @ + 1]
    /\ UNCHANGED uploads
    /\ UNCHANGED <<config_vars, browser_vars, backend_vars, raised, n_starts,
                   idle_stops, screenshot_vars, out>>

\* Every client has the State of the class defaults; the upload directory
\* is empty.  events, chunks and expected are history: the events handled
\* for the client, what became of each chunk since its last start, and the
\* bytes of the chunks that decoded since then.
ClientsInit ==
    /\ event_triggers = {"on_data_available", "on_start", "on_stop"}
    /\ timeslice = 1000
    /\ Fresh
    /\ out = <<>>
    /\ clients = [c \in Tokens |->
                    [recording |-> FALSE, n_recordings |-> 0,
                     active_tab |-> SCREENSHOT_TAB, events |-> 0,
                     chunks |-> <<>>, expected |-> <<>>]]
    /\ uploads = <<>>

\* The events handled for client c.
client_step(c) ==
    \/ client_on_start_recording(c)
    \/ \E chunk \in Chunks : client_handle_video_chunk(c, chunk)
    \/ client_on_stop_recording(c)

ClientsNext ==
    \E c \in Tokens : client_step(c)

ClientsSpec == ClientsInit /\ [][ClientsNext]_vars

----------------------------------------------------------------------------
\* The artifact of client c in the upload directory.
artifact(files, c) ==
    IF client_video_path(c) \in DOMAIN files
    THEN [exists |-> TRUE, bytes |-> files[client_video_path(c)]]
    ELSE [exists |-> FALSE, bytes |-> <<>>]

\* C18: artifacts of different clients are isolated.  An event handled for
\* one client leaves the artifact, the recording flag and the generation
\* counter of every other client as they were; a chunk is appended to the
\* artifact of its own client and on_start_recording empties that artifact
\* alone, so each artifact holds the chunks its client sent since its
\* last start.
C18_ClientsIsolated ==
    [][\A c \in Tokens :
          client_step(c) =>
             /\ \A d \in Tokens \ {c} :
                   /\ clients'[d] = clients[d]
                   /\ artifact(uploads', d) = artifact(uploads, d)
             /\ \A d \in Tokens :
                   clients'[d].n_recordings > 0 =>
                      artifact(uploads', d).bytes = clients'[d].expected
      ]_vars

\* Both clients are recording and each artifact holds its client's chunk.
C18_Witness ==
    /\ clients["A"].recording
    /\ clients["B"].recording
    /\ artifact(uploads, "A").bytes = <<1>>
    /\ artifact(uploads, "B").bytes = <<2>>

----------------------------------------------------------------------------
\* C19: a chunk that fails to decode is dropped by handle_video_chunk: the
\* bytes of the artifact stay as they were, nothing is appended, the
\* recording flag and the generation counter are unchanged; and a chunk
\* that decodes is appended, after a dropped one as at any time.
C19_MalformedChunkDropped ==
    [][\A c \in Tokens, chunk \in Chunks :
          client_handle_video_chunk(c, chunk) =>
             /\ clients'[c].recording = clients[c].recording
             /\ clients'[c].n_recordings = clients[c].n_recordings
             /\ IF urlopen(strip_codec_part(chunk)).ok
                THEN artifact(uploads', c).bytes =
                        artifact(uploads, c).bytes
                           \o urlopen(strip_codec_part(chunk)).bytes
                ELSE artifact(uploads', c).bytes = artifact(uploads, c).bytes
      ]_vars

\* In one recording a chunk was written, the next was dropped, and the one
\* after it was written behind the first.
C19_Witness ==
    /\ clients["A"].recording
    /\ clients["A"].chunks = <<"written", "raised", "written">>
    /\ artifact(uploads, "A").bytes = <<1, 2>>

----------------------------------------------------------------------------
\* C20: the stop event of a discarded recorder never sets State.recording
\* to False under the current recorder: in every state in which the
\* handle's current recorder is recording and on_start_recording has
\* processed its start event, State.recording is True.
C20_RecordingFlagOfCurrentRecorder ==
    (/\ refs_mediarecorder # 0
     /\ recorders[refs_mediarecorder].state = "recording"
     /\ artifact_rec = refs_mediarecorder) => recording

\* The second recorder is recording, its start has been processed, and so
\* has the stop of the first recorder, which the second start discarded.
C20_Witness ==
    /\ refs_mediarecorder = 2
    /\ recorders[2].state = "recording"
    /\ artifact_rec = 2
    /\ stopped_bytes.rec = 1
    /\ recording
    /\ event_queue = <<>>

====
